---- MODULE Spec2Model ----
(***************************************************************************)
(* Multi-tenant datasource authorization and driver-configuration layer   *)
(* of services/cubejs/index.js: the Auth Gate (setupAuthInfo), the Query  *)
(* Access Filter (options.queryRewrite) and the Driver Config Adapter     *)
(* (driverFactory).                                                       *)
(***************************************************************************)
EXTENDS Integers, Sequences, FiniteSets, TLC

(***************************************************************************)
(* Bounds of the model.                                                    *)
(***************************************************************************)
\* total number of names a query lists in dimensions, measures and segments
MaxQueryNames == 2
\* number of cubes an access-control config grants for one datasource
MaxCubes == 2
\* number of keys of a raw connection-parameter bag
MaxParams == 2

SeqsUpTo(S, n) == UNION {[1..k -> S] : k \in 0..n}

Includes(seq, x) == \E i \in DOMAIN seq : seq[i] = x

(***************************************************************************)
(* Part I.  Auth Gate and Query Access Filter.                             *)
(***************************************************************************)

Names == {"a", "b", "c"}

\* a cube of a query or of a config: three lists of member names.  An absent
\* list reads as [] in getColumnsArray, so absence is the empty sequence.
Cube(d, m, s) == [dimensions |-> d, measures |-> m, segments |-> s]

Queries ==
  {Cube(d, m, s) : d \in SeqsUpTo(Names, MaxQueryNames),
                   m \in SeqsUpTo(Names, MaxQueryNames),
                   s \in SeqsUpTo(Names, MaxQueryNames)}

BoundedQueries ==
  {q \in Queries :
     Len(q.dimensions) + Len(q.measures) + Len(q.segments) <= MaxQueryNames}

\* the cubes a config may grant: X allow-lists a (dimension) and b (measure),
\* Y allow-lists c (segment)
CubeX == Cube(<<"a">>, <<"b">>, <<>>)
CubeY == Cube(<<>>, <<>>, <<"c">>)

\* Object.values(config.datasources[id].cubes), in insertion order
CubeLists == SeqsUpTo({CubeX, CubeY}, MaxCubes)

\* an access-control config: present = FALSE is the absent (null/undefined)
\* config; datasources maps a datasource id to its granted cubes
NoConfig == [present |-> FALSE, datasources |-> <<>>]

ConfigOf(ds) == [present |-> TRUE, datasources |-> ds]

Configs ==
  {NoConfig, ConfigOf(<<>>), ConfigOf([d \in {"ds2"} |-> <<CubeX, CubeY>>])}
  \cup {ConfigOf([d \in {"ds1"} |-> cl]) : cl \in CubeLists}

\* the permission sets getPermissions can return: elevated roles come with no
\* config, with a config granting nothing and with one granting a cube
PermissionSets ==
  {[role |-> r, config |-> c] :
     r \in {"owner", "admin"},
     c \in {NoConfig, ConfigOf(<<>>), ConfigOf([d \in {"ds1"} |-> <<CubeY>>])}}
  \cup {[role |-> "member", config |-> c] : c \in Configs}

\* outcomes of jwt.verify(cubejsAuthToken, CUBEJS_SECRET): a thrown error
\* with its message, or the decoded payload ("" is a missing dataSourceId)
VerifyOutcomes ==
  {[ok |-> FALSE, message |-> m, dataSourceId |-> "", userId |-> ""] :
     m \in {"invalid signature", "jwt expired"}}
  \cup {[ok |-> TRUE, message |-> "", dataSourceId |-> d, userId |-> "u1"] :
     d \in {"", "ds1"}}

\* outcomes of findDataSource: a record, a record without id, null, or a
\* rejected lookup
DataSourceOutcomes ==
  {[kind |-> "record", id |-> "ds1", db_type |-> t, db_params |-> "params",
    version |-> "v1"] : t \in {"postgres", "mssql"}}
  \cup {[kind |-> k, id |-> "", db_type |-> "", db_params |-> "",
         version |-> ""] : k \in {"noid", "null", "throws"}}

VARIABLES
  store,      \* the permission set the credential store holds for the user
  authState,  \* "idle" | "returned" | "raised": how setupAuthInfo ended
  ctx,        \* req.securityContext, a record; <<>> while none is attached
  authIn,     \* the outcomes of jwt.verify and of the two lookups of that call
  query,      \* the query of the pending queryRewrite call
  qres,       \* what that call produced
  drvIn,      \* the argument of the pending driverFactory call
  drvOut      \* what that call produced

authVars == <<store, authState, ctx, authIn, query, qres>>

driverVars == <<drvIn, drvOut>>

vars == <<store, authState, ctx, authIn, query, qres, drvIn, drvOut>>

NoCtx == <<>>

EmptyQuery == Cube(<<>>, <<>>, <<>>)

NoResult == [kind |-> "none", name |-> "", query |-> EmptyQuery]

\* no setupAuthInfo call yet
NoAuthInput ==
  [verify |-> [ok |-> FALSE, message |-> "", dataSourceId |-> "",
               userId |-> ""],
   dataSource |-> [kind |-> "null", id |-> "", db_type |-> "",
                   db_params |-> "", version |-> ""],
   permsOk |-> FALSE]

\* pushError that leaves the forwarded auth token in the context
pushErrorKeepsToken(error) == [error |-> error, authToken |-> "hasura-token"]

\* const pushError = (req, error) => { req.securityContext = { error } }
pushError(error) == [error |-> error]

\* buildSecurityContext(dataSource)
buildSecurityContext(dataSource) ==
  [dbType |-> dataSource.db_type,
   dbParams |-> dataSource.db_params,
   schemaVersion |-> dataSource.version,
   dataSourceVersion |-> dataSource.version]

\* the context of lines 87-93: identity, ...permissions, ...securityContext
fullContext(dataSourceId, userId, permissions, sc) ==
  [dataSourceId |-> dataSourceId,
   userId |-> userId,
   authToken |-> "hasura-token",
   role |-> permissions.role,
   config |-> permissions.config,
   dbType |-> sc.dbType,
   dbParams |-> sc.dbParams,
   schemaVersion |-> sc.schemaVersion,
   dataSourceVersion |-> sc.dataSourceVersion]

\* setupAuthInfo: the outcome [raised, ctx] of one call.  permsOk = FALSE is
\* a rejected getPermissions lookup.  Neither await is inside a try block, so
\* a rejected lookup rejects the call and attaches nothing.
setupAuthInfo(verify, dataSource, permsOk, permissions) ==
  IF ~verify.ok
    THEN [raised |-> FALSE, ctx |-> pushError(verify.message)]
  ELSE IF verify.dataSourceId = ""
    THEN [raised |-> FALSE, ctx |-> pushError("Provide dataSourceId")]
  ELSE IF dataSource.kind = "throws" \/ ~permsOk
    THEN [raised |-> TRUE, ctx |-> NoCtx]
  ELSE IF dataSource.kind # "record"
    THEN [raised |-> FALSE,
          ctx |-> pushError("Source \"" \o verify.dataSourceId
                              \o "\" not found")]
  ELSE [raised |-> FALSE,
        ctx |-> fullContext(verify.dataSourceId, verify.userId, permissions,
                            buildSecurityContext(dataSource))]

\* getColumnsArray that forgets the segments
getColumnsArrayNoSegments(cube) == cube.dimensions \o cube.measures

\* const getColumnsArray = (cube) => [...dimensions, ...measures, ...segments]
getColumnsArray(cube) == cube.dimensions \o cube.measures \o cube.segments

\* Object.values(accessDatasource).reduce((acc, cube) =>
\*   [...acc, ...getColumnsArray(cube)], [])
RECURSIVE accessNamesOf(_)
accessNamesOf(cubes) ==
  IF cubes = <<>> THEN <<>>
  ELSE getColumnsArray(Head(cubes)) \o accessNamesOf(Tail(cubes))

\* an elevated-role test that knows the owner only
isElevatedOwnerOnly(role) == role = "owner"

\* ['owner', 'admin'].includes(role)
isElevated(role) == role \in {"owner", "admin"}

\* a permission source that always uses the context's captured permissions
permissionSourceCaptured(context, fetched) ==
  [role |-> context.role, config |-> context.config]

\* securityContext?.config ? securityContext : await getPermissions(userId)
permissionSource(context, fetched) ==
  IF context.config.present
    THEN [role |-> context.role, config |-> context.config]
    ELSE fetched

\* queryNames.forEach(cn => { if (!accessNames.includes(cn)) throw ... })
RECURSIVE checkNames(_, _, _)
checkNames(queryNames, accessNames, q) ==
  IF queryNames = <<>>
    THEN [kind |-> "returned", name |-> "", query |-> q]
  ELSE IF ~Includes(accessNames, Head(queryNames))
    THEN [kind |-> "denied", name |-> Head(queryNames), query |-> EmptyQuery]
  ELSE checkNames(Tail(queryNames), accessNames, q)

\* options.queryRewrite(query, { securityContext })
queryRewrite(q, context, fetchOk, fetched) ==
  IF ~context.config.present /\ ~fetchOk
    THEN [kind |-> "raised", name |-> "", query |-> EmptyQuery]
  ELSE
    LET p == permissionSource(context, fetched)
        hasAccess == p.config.present
                       /\ context.dataSourceId \in DOMAIN p.config.datasources
    IN IF isElevated(p.role) \/ ~p.config.present
         THEN [kind |-> "returned", name |-> "", query |-> q]
       ELSE IF ~hasAccess
         THEN [kind |-> "nodatasource", name |-> "", query |-> EmptyQuery]
       ELSE checkNames(getColumnsArray(q),
                       accessNamesOf(p.config.datasources[context.dataSourceId]),
                       q)

AuthInit ==
  /\ store \in PermissionSets
  /\ authState = "idle"
  /\ ctx = NoCtx
  /\ authIn = NoAuthInput
  /\ query = EmptyQuery
  /\ qres = NoResult

\* checkAuth: setupAuthInfo(req, auth), once per request
SetupAuthInfo ==
  /\ authState = "idle"
  /\ \E verify \in VerifyOutcomes, ds \in DataSourceOutcomes,
        permsOk \in BOOLEAN :
       LET out == setupAuthInfo(verify, ds, permsOk, store)
       IN /\ authState' = IF out.raised THEN "raised" ELSE "returned"
          /\ ctx' = out.ctx
          /\ authIn' = [verify |-> verify, dataSource |-> ds,
                         permsOk |-> permsOk]
  /\ UNCHANGED <<store, query, qres, drvIn, drvOut>>

\* the framework calls queryRewrite for a query under the request's context;
\* queries are rewritten for requests whose context is a full one
QueryRewrite ==
  /\ authState = "returned"
  /\ "dataSourceId" \in DOMAIN ctx
  /\ qres.kind = "none"
  /\ \E q \in BoundedQueries, fetchOk \in BOOLEAN :
       /\ query' = q
       /\ qres' = queryRewrite(q, ctx, fetchOk, store)
  /\ UNCHANGED <<store, authState, ctx, authIn, drvIn, drvOut>>

\* the framework consumes the result of the call
Deliver ==
  /\ qres.kind # "none"
  /\ query' = EmptyQuery
  /\ qres' = NoResult
  /\ UNCHANGED <<store, authState, ctx, authIn, drvIn, drvOut>>

\* the credential store's permission set changes between calls: handlers
\* are taken as atomic, so a change during a call is a change before or after
\* it, and the result of a call is delivered before the next change
StoreChange ==
  /\ qres.kind = "none"
  /\ \E p \in PermissionSets : p # store /\ store' = p
  /\ UNCHANGED <<authState, ctx, authIn, query, qres, drvIn, drvOut>>

(***************************************************************************)
(* Part II.  Driver Config Adapter.                                        *)
(***************************************************************************)

\* connParamValid: port >= 0 && port < 65536
PortLimit == 65536

\* JavaScript values of a parameter bag or a driver config
Str(s) == [k |-> "str", n |-> 0, s |-> s, o |-> <<>>]
Num(n) == [k |-> "num", n |-> n, s |-> "", o |-> <<>>]
Bool(b) == [k |-> "bool", n |-> IF b THEN 1 ELSE 0, s |-> "", o |-> <<>>]
Null == [k |-> "null", n |-> 0, s |-> "", o |-> <<>>]
Undefined == [k |-> "undefined", n |-> 0, s |-> "", o |-> <<>>]
Obj(o) == [k |-> "obj", n |-> 0, s |-> "", o |-> o]

\* !!value
Truthy(v) ==
  CASE v.k = "str" -> v.s # ""
    [] v.k = "num" -> v.n # 0
    [] v.k = "bool" -> v.n = 1
    [] v.k = "obj" -> TRUE
    [] OTHER -> FALSE

\* the string a value contributes to Array.prototype.join
JoinStr(v) ==
  CASE v.k = "str" -> v.s
    [] v.k = "num" -> ToString(v.n)
    [] v.k = "bool" -> IF v.n = 1 THEN "true" ELSE "false"
    [] v.k = "obj" -> "[object Object]"
    [] OTHER -> ""

\* object.key: undefined when the key is absent
Get(obj, key) == IF key \in DOMAIN obj THEN obj[key] ELSE Undefined

\* { ...obj, key: value, ... }: the keys of ext are set on top of obj
Spread(obj, ext) ==
  [key \in DOMAIN obj \cup DOMAIN ext |->
     IF key \in DOMAIN ext THEN ext[key] ELSE obj[key]]

RawKeys ==
  {"host", "port", "keyFile", "ssl", "user", "password", "url", "apiId",
   "apiKey", "orgId", "accountId"}

PortValues == {-1, 0, 1, PortLimit - 1, PortLimit}

GoodKeyFile == "{\"project_id\":\"p\"}"

RawDomain(key) ==
  CASE key = "host" -> {Str("h"), Str("https://h"), Str("")}
    [] key = "port" -> {Num(p) : p \in PortValues}
    [] key = "keyFile" -> {Str(GoodKeyFile), Str("not json")}
    [] key = "ssl" -> {Bool(TRUE), Bool(FALSE)}
    [] key = "user" -> {Str("u"), Null}
    [] key = "password" -> {Str("p")}
    [] key = "apiId" -> {Str("id"), Num(0)}
    [] key = "url" -> {Str("http://es")}
    [] key = "apiKey" -> {Str("key")}
    [] key = "orgId" -> {Str("org")}
    [] key = "accountId" -> {Str("acc")}

\* the raw connection-parameter bags: at most MaxParams keys
Bags ==
  UNION {{f \in [K -> UNION {RawDomain(key) : key \in K}] :
            \A key \in K : f[key] \in RawDomain(key)} :
         K \in {S \in SUBSET RawKeys : Cardinality(S) <= MaxParams}}

\* securityContext.dbParams: absent, the empty string, a mapping, a JSON text
\* of a mapping, or a text that does not parse
DbParams ==
  {[form |-> f, bag |-> <<>>] : f \in {"absent", "emptystring", "badjson"}}
  \cup {[form |-> f, bag |-> b] : f \in {"object", "json"}, b \in Bags}

\* the type tags of the dispatch, one type without derivation, the type
\* constructed inside the try block, and a tag with no registered driver
DbTypes ==
  {"bigquery", "mssql", "clickhouse", "athena", "elasticsearch", "snowflake",
   "druid", "ksql", "firebolt", "postgres", "databricks-jdbc", "unknown"}

\* DriverDependencies[dbType] is defined
DriverDependencies == DbTypes \ {"unknown"}

CredentialsMessage == "Datasource credentials not found or incorrect"

ParseMessage == "Unexpected token in JSON"

\* the errors a security context carries ("" is no error)
SecurityErrors == {"", "Provide dataSourceId", "invalid signature"}

SecurityContexts ==
  {[error |-> e, dbType |-> t, dbParams |-> p] :
     e \in SecurityErrors, t \in DbTypes, p \in DbParams}

NoDriverInput ==
  [sc |-> [error |-> "", dbType |-> "unknown",
           dbParams |-> [form |-> "absent", bag |-> <<>>]],
   ctorThrows |-> FALSE]

\* kind: "none" | "error" (the driverError handle) | "driver" (a constructed
\* driver) | "raised" (an exception left driverFactory)
Outcome(kind, message, config, imported) ==
  [kind |-> kind, message |-> message, config |-> config,
   imported |-> imported]

NoOutcome == Outcome("none", "", <<>>, FALSE)

\* const driverError = (err) => ({ tablesSchema: throwError, testConnection:
\* throwError }) with throwError throwing err?.message || err
driverError(message) == Outcome("error", message, <<>>, FALSE)

\* a missing-parameters test that forgets the empty mapping
paramsMissingFalsyOnly(dbParams) == dbParams.form \in {"absent", "emptystring"}

\* !dbParams || !Object.keys(dbParams).length
paramsMissing(dbParams) ==
  \/ dbParams.form \in {"absent", "emptystring"}
  \/ dbParams.form = "object" /\ DOMAIN dbParams.bag = {}

\* JSON.parse(dbParams) for a string, dbParams itself for an object
parseDbParams(dbParams) ==
  IF dbParams.form = "badjson"
    THEN [ok |-> FALSE, value |-> <<>>]
    ELSE [ok |-> TRUE, value |-> dbParams.bag]

\* a cleaning that drops null and undefined values only
cleanFalsyNullish(parsed) ==
  [key \in {x \in DOMAIN parsed : parsed[x].k \notin {"null", "undefined"}}
     |-> parsed[key]]

\* Object.keys(parsed).filter(key => !!parsed[key]).reduce(...)
cleanFalsy(parsed) ==
  [key \in {x \in DOMAIN parsed : Truthy(parsed[x])} |-> parsed[key]]

\* a port test with the upper limit included
connParamValidInclusive(port) ==
  CASE port.k \in {"num", "bool"} -> port.n >= 0 /\ port.n <= PortLimit
    [] port.k = "null" -> TRUE
    [] OTHER -> FALSE

\* port >= 0 && port < 65536 (a non-numeric string compares as NaN)
connParamValid(port) ==
  CASE port.k \in {"num", "bool"} -> port.n >= 0 /\ port.n < PortLimit
    [] port.k = "null" -> TRUE
    [] OTHER -> FALSE

portMessage(port) ==
  "Port should be >= 0 and < 65536. Received " \o JoinStr(port) \o "."

\* host.startsWith("http://") || host.startsWith("https://"), hosts being
\* the strings of RawDomain("host")
hasHttpPrefix(host) == host \in {"https://h", "http://h"}

addHttpPrefix(host) == IF hasHttpPrefix(host) THEN host ELSE "http://" \o host

\* [addHttpPrefix(raw_host), port].join(':')
makeUrl(raw_host, port) == addHttpPrefix(raw_host) \o ":" \o JoinStr(port)

\* JSON.parse(dbConfig.keyFile): the key file's object, or a SyntaxError
\* (also for an absent keyFile, JSON.parse(undefined))
keyFileParses(keyFile) == keyFile.k = "str" /\ keyFile.s = GoodKeyFile

\* parseInt(port) is a non-zero number
parseIntTruthy(port) == port.k = "num" /\ port.n # 0

Derived(config) == [kind |-> "ok", message |-> "", config |-> config]

\* case 'bigquery'
deriveBigquery(c) ==
  IF keyFileParses(Get(c, "keyFile"))
    THEN Derived(Spread(c, [credentials |-> Obj([project_id |-> Str("p")])]))
    ELSE [kind |-> "error", message |-> ParseMessage, config |-> <<>>]

\* case 'mssql': MSSQL_DEFAULT_PORT is declared nowhere, so reading it throws
\* a ReferenceError
deriveMssql(c) ==
  IF parseIntTruthy(Get(c, "port"))
    THEN Derived(Spread(c, [server |-> Get(c, "host"),
                            port |-> Get(c, "port")]))
    ELSE [kind |-> "raised", message |-> "MSSQL_DEFAULT_PORT is not defined",
          config |-> <<>>]

\* [dbConfig.user, dbConfig.password].filter(Boolean).join(':')
clickhouseAuth(c) ==
  IF Truthy(Get(c, "user")) /\ Truthy(Get(c, "password"))
    THEN JoinStr(Get(c, "user")) \o ":" \o JoinStr(Get(c, "password"))
  ELSE IF Truthy(Get(c, "user")) THEN JoinStr(Get(c, "user"))
  ELSE IF Truthy(Get(c, "password")) THEN JoinStr(Get(c, "password"))
  ELSE ""

\* case 'clickhouse'
deriveClickhouse(c) ==
  Derived([host |-> Get(c, "host"),
           port |-> Get(c, "port"),
           auth |-> Str(clickhouseAuth(c)),
           protocol |-> IF Truthy(Get(c, "ssl")) THEN Str("https:")
                                                 ELSE Str("http:"),
           queryOptions |->
             Obj([database |-> IF Truthy(Get(c, "database"))
                                 THEN Get(c, "database")
                                 ELSE Str("default")])])

\* case 'athena'
deriveAthena(c) ==
  Derived(Spread(c, [accessKeyId |-> Get(c, "awsKey"),
                     secretAccessKey |-> Get(c, "awsSecret"),
                     S3OutputLocation |-> Get(c, "awsS3OutputLocation"),
                     region |-> Get(c, "awsRegion")]))

\* case 'elasticsearch', lines 203-221
elasticsearchConfig(c) ==
  LET basic == [username |-> Get(c, "username"),
                password |-> Get(c, "password")]
      withKey == Spread(basic, [apiKey |-> Obj([id |-> Get(c, "apiId"),
                                                api_key |-> Get(c, "apiKey")])])
  IN Spread(c, [queryFormat |-> Str("json"),
                url |-> Get(c, "url"),
                auth |-> IF Truthy(Get(c, "apiId")) /\ Truthy(Get(c, "apiKey"))
                           THEN Obj(withKey) ELSE Obj(basic)])

\* case 'snowflake', lines 223-229
snowflakeConfig(c) ==
  Spread(c, [account |-> Str(JoinStr(Get(c, "orgId")) \o "-"
                               \o JoinStr(Get(c, "accountId")))])

\* case 'elasticsearch' has no break: control falls into case 'snowflake'
deriveElasticsearch(c) == Derived(snowflakeConfig(elasticsearchConfig(c)))

deriveSnowflake(c) == Derived(snowflakeConfig(c))

\* case 'druid' / case 'ksql': makeUrl throws a TypeError for an absent host
deriveUrl(c) ==
  IF Get(c, "host").k = "str"
    THEN Derived(Spread(c, [url |-> Str(makeUrl(Get(c, "host").s,
                                                Get(c, "port")))]))
    ELSE [kind |-> "raised",
          message |-> "Cannot read properties of undefined (reading 'startsWith')",
          config |-> <<>>]

\* case 'firebolt'
deriveFirebolt(c) ==
  Derived(Spread(c, [connection |->
                       Obj([database |-> Get(c, "database"),
                            username |-> Get(c, "username"),
                            password |-> Get(c, "password"),
                            engineName |-> Get(c, "engineName")])]))

\* switch (dbType) { ... }
deriveConfig(dbType, c) ==
  CASE dbType = "bigquery" -> deriveBigquery(c)
    [] dbType = "mssql" -> deriveMssql(c)
    [] dbType = "clickhouse" -> deriveClickhouse(c)
    [] dbType = "athena" -> deriveAthena(c)
    [] dbType = "elasticsearch" -> deriveElasticsearch(c)
    [] dbType = "snowflake" -> deriveSnowflake(c)
    [] dbType \in {"druid", "ksql"} -> deriveUrl(c)
    [] dbType = "firebolt" -> deriveFirebolt(c)
    [] OTHER -> Derived(c)

\* lines 248-266: import the driver module and construct the driver.  Only
\* the databricks-jdbc constructor runs inside the try block.
loadDriver(dbType, config, ctorThrows) ==
  IF dbType \notin DriverDependencies
    THEN driverError("Cannot find module 'undefined'")
  ELSE IF ~ctorThrows
    THEN Outcome("driver", "", config, TRUE)
  ELSE IF dbType = "databricks-jdbc"
    THEN Outcome("error", "driver constructor failed", <<>>, TRUE)
  ELSE Outcome("raised", "driver constructor failed", <<>>, TRUE)

\* the port check of lines 147-149
portRejected(dbConfig) ==
  Truthy(Get(dbConfig, "port")) /\ ~connParamValid(Get(dbConfig, "port"))

\* lines 146-156: the port check, then the context's own error
validate(dbConfig, securityError) ==
  IF portRejected(dbConfig) THEN portMessage(Get(dbConfig, "port"))
  ELSE securityError

\* const driverFactory = async ({ securityContext }) => { ... }
driverFactory(sc, ctorThrows) ==
  IF paramsMissing(sc.dbParams) THEN driverError(CredentialsMessage)
  ELSE LET parsed == parseDbParams(sc.dbParams)
       IN IF ~parsed.ok THEN driverError(ParseMessage)
          ELSE LET dbConfig == cleanFalsy(parsed.value)
                   failure == validate(dbConfig, sc.error)
                   d == deriveConfig(sc.dbType, dbConfig)
               IN IF failure # "" THEN driverError(failure)
                  ELSE IF d.kind = "error" THEN driverError(d.message)
                  ELSE IF d.kind = "raised"
                    THEN Outcome("raised", d.message, <<>>, FALSE)
                  ELSE loadDriver(sc.dbType, d.config, ctorThrows)

DriverInit ==
  /\ drvIn = NoDriverInput
  /\ drvOut = NoOutcome

\* the framework asks for the driver of a security context
DriverFactory ==
  /\ drvOut.kind = "none"
  /\ \E sc \in SecurityContexts, ctorThrows \in BOOLEAN :
       /\ drvIn' = [sc |-> sc, ctorThrows |-> ctorThrows]
       /\ drvOut' = driverFactory(sc, ctorThrows)
  /\ UNCHANGED authVars

\* the framework takes the handle (or the exception) of the call
Release ==
  /\ drvOut.kind # "none"
  /\ drvIn' = NoDriverInput
  /\ drvOut' = NoOutcome
  /\ UNCHANGED authVars

(***************************************************************************)
(* Specifications.                                                         *)
(***************************************************************************)

Next == SetupAuthInfo \/ QueryRewrite \/ Deliver \/ StoreChange

Init == AuthInit /\ DriverInit

\* the Auth Gate and the Query Access Filter of one request
Spec == Init /\ [][Next]_vars

DriverNext == DriverFactory \/ Release

DriverStart ==
  /\ DriverInit
  /\ store = [role |-> "owner", config |-> NoConfig]
  /\ authState = "idle"
  /\ ctx = NoCtx
  /\ authIn = NoAuthInput
  /\ query = EmptyQuery
  /\ qres = NoResult

\* the Driver Config Adapter, one call at a time
SpecDriver == DriverStart /\ [][DriverNext]_vars

(***************************************************************************)
(* Properties of the Auth Gate and the Query Access Filter (Spec).         *)
(***************************************************************************)

ElevatedRoles == {"owner", "admin"}

\* the names a cube lists
NamesOf(cube) ==
  {cube.dimensions[i] : i \in DOMAIN cube.dimensions}
  \cup {cube.measures[i] : i \in DOMAIN cube.measures}
  \cup {cube.segments[i] : i \in DOMAIN cube.segments}

\* the union of the names allow-listed by the cubes a config grants for id
AllowedNames(config, id) ==
  IF id \in DOMAIN config.datasources
    THEN UNION {NamesOf(config.datasources[id][i]) :
                  i \in DOMAIN config.datasources[id]}
    ELSE {}

\* the first name of q, in the order dimensions, measures, segments, that is
\* not in allowed
FirstOffending(q, allowed) ==
  LET ordered == q.dimensions \o q.measures \o q.segments
      i == CHOOSE j \in DOMAIN ordered :
             /\ ordered[j] \notin allowed
             /\ \A h \in 1..(j - 1) : ordered[h] \in allowed
  IN ordered[i]

Returned(q) == [kind |-> "returned", name |-> "", query |-> q]

Denied(name) == [kind |-> "denied", name |-> name, query |-> EmptyQuery]

NoDatasourceAccess == [kind |-> "nodatasource", name |-> "", query |-> EmptyQuery]

\* the allow-list decision for q under a config that is present
AllowListDecision(q, config, id) ==
  IF NamesOf(q) \subseteq AllowedNames(config, id)
    THEN Returned(q)
    ELSE Denied(FirstOffending(q, AllowedNames(config, id)))

\* the decision of the filter for q against a permission set
Decision(q, perms, id) ==
  IF perms.role \in ElevatedRoles \/ ~perms.config.present THEN Returned(q)
  ELSE IF id \notin DOMAIN perms.config.datasources THEN NoDatasourceAccess
  ELSE AllowListDecision(q, perms.config, id)

\* a queryRewrite call has ended otherwise than by a failed getPermissions
Decided == qres.kind \notin {"none", "raised"}

CapturedPerms == [role |-> ctx.role, config |-> ctx.config]

\* the permission set the pending decision was taken on: the store does not
\* change while a result is pending
EffectivePerms == IF ctx.config.present THEN CapturedPerms ELSE store

NonElevatedWithConfig ==
  /\ Decided
  /\ EffectivePerms.role \notin ElevatedRoles
  /\ EffectivePerms.config.present

\* C1 as stated: for a non-elevated role with a config the query is returned
\* unchanged iff all its names are in the union of the names allow-listed for
\* the context's datasource, and is otherwise denied naming the first
\* offending name.
C1_Original ==
  NonElevatedWithConfig =>
    qres = AllowListDecision(query, EffectivePerms.config, ctx.dataSourceId)

\* C1 amended: for a non-elevated role with a config that has an entry for the
\* context's datasource, the query is returned unchanged iff all its names are
\* allow-listed and is otherwise denied naming the first offending name in
\* query order; with no entry for the datasource every query, the empty one
\* included, fails with "No access to datasource!".  A query with a name
\* that is not allow-listed is never returned.
C1_AllowList ==
  NonElevatedWithConfig =>
    /\ qres = IF ctx.dataSourceId \in DOMAIN EffectivePerms.config.datasources
                THEN AllowListDecision(query, EffectivePerms.config,
                                       ctx.dataSourceId)
                ELSE NoDatasourceAccess
    /\ qres.kind = "returned" =>
         NamesOf(query) \subseteq
           AllowedNames(EffectivePerms.config, ctx.dataSourceId)

\* a query naming a and c under a grant of cube X alone is denied for c
C1_Witness ==
  /\ NonElevatedWithConfig
  /\ ctx.config = ConfigOf([d \in {"ds1"} |-> <<CubeX>>])
  /\ query = Cube(<<"a">>, <<>>, <<"c">>)
  /\ qres = Denied("c")

\* C2 as stated: when the context's role is owner or admin the query is
\* returned unchanged (a failed getPermissions lookup left aside).
C2_Original ==
  (Decided /\ ctx.role \in ElevatedRoles) => qres = Returned(query)

\* C2 amended: when the role the filter decides on is owner or admin, the
\* query is returned unchanged for any query and any config; that role is the
\* context's role when the context carries a config and the role
\* getPermissions returns at query time otherwise.
C2_ElevatedPasses ==
  (Decided /\ EffectivePerms.role \in ElevatedRoles) => qres = Returned(query)

\* an admin whose config grants nothing for the datasource gets the query back
C2_Witness ==
  /\ Decided
  /\ ctx.role = "admin"
  /\ ctx.config = ConfigOf(<<>>)
  /\ query = Cube(<<"a">>, <<"b">>, <<>>)
  /\ qres = Returned(query)

\* the three failures of setupAuthInfo that attach an error context
AuthFailure ==
  \/ ~authIn.verify.ok
  \/ authIn.verify.dataSourceId = ""
  \/ authIn.dataSource.kind \in {"null", "noid"}

ExpectedAuthError ==
  IF ~authIn.verify.ok THEN authIn.verify.message
  ELSE IF authIn.verify.dataSourceId = "" THEN "Provide dataSourceId"
  ELSE "Source \"" \o authIn.verify.dataSourceId \o "\" not found"

C4_NeverRaises ==
  authState # "idle" =>
    /\ authState = "returned"
    /\ DOMAIN ctx = {"error"} \/ "dataSourceId" \in DOMAIN ctx

\* C7 as stated: every decision is taken against the permission set the
\* credential store holds at the time of the query.
C7_Original ==
  Decided => qres = Decision(query, store, ctx.dataSourceId)

\* C7 amended: a context that carries no config is decided against the
\* permission set the store holds at the time of the query; a context that
\* carries a config is decided against the role and config captured when the
\* context was built, whatever the store holds by then.
C7_DecisionSource ==
  Decided =>
    /\ ~ctx.config.present =>
         qres = Decision(query, store, ctx.dataSourceId)
    /\ ctx.config.present =>
         qres = Decision(query, CapturedPerms, ctx.dataSourceId)

\* a context built for an owner without config, a store that has since
\* changed to a member with a grant of cube X, and a query denied under it
C7_Witness ==
  /\ Decided
  /\ ctx.role = "owner"
  /\ ~ctx.config.present
  /\ store = [role |-> "member",
              config |-> ConfigOf([d \in {"ds1"} |-> <<CubeX>>])]
  /\ qres = Denied("c")

(***************************************************************************)
(* Properties of the Driver Config Adapter (SpecDriver).                   *)
(***************************************************************************)

Called == drvOut.kind # "none"

InParams == drvIn.sc.dbParams

\* dbParams is absent or empty
ParamsAbsentOrEmpty ==
  \/ InParams.form \in {"absent", "emptystring"}
  \/ InParams.form = "object" /\ InParams.bag = <<>>

\* the raw parameters name key with a truthy value
RawSet(key) == key \in DOMAIN InParams.bag /\ Truthy(InParams.bag[key])

\* the raw parameters carry an integer port outside [0, 65536)
PortOutOfRange ==
  /\ "port" \in DOMAIN InParams.bag
  /\ InParams.bag["port"].n < 0 \/ InParams.bag["port"].n >= PortLimit

PortError ==
  "Port should be >= 0 and < 65536. Received "
    \o ToString(InParams.bag["port"].n) \o "."

FailClosed(message) ==
  /\ drvOut.kind = "error"
  /\ drvOut.message = message
  /\ ~drvOut.imported

ErrorOrNoParams == Called /\ (drvIn.sc.error # "" \/ ParamsAbsentOrEmpty)

C6_NeverRaises == drvOut.kind # "raised"

\* C8: for an integer port p in dbParams, the result is the fail-closed handle
\* with the port error iff p < 0 or p >= 65536.
C8_PortRange ==
  (Called /\ InParams.form \in {"object", "json"}
     /\ "port" \in DOMAIN InParams.bag) =>
    ((drvOut.kind = "error" /\ drvOut.message = PortError) <=> PortOutOfRange)

\* port 65535 is accepted and reaches the driver
C8_Witness ==
  /\ drvOut.kind = "driver"
  /\ "port" \in DOMAIN InParams.bag
  /\ InParams.bag["port"] = Num(PortLimit - 1)
  /\ drvOut.config["port"] = Num(PortLimit - 1)

\* every raw field that is missing or falsy is absent from config
UnsetAbsent(config) ==
  \A key \in RawKeys : ~RawSet(key) => key \notin DOMAIN config

\* C9 as stated: for every dbType, the fields missing or falsy in the raw
\* parameters are absent as keys from the config handed to the driver.
C9_Original == drvOut.kind = "driver" => UnsetAbsent(drvOut.config)

\* the types whose parameters the dispatch leaves unchanged
PassThroughTypes == {"postgres", "databricks-jdbc"}

\* C9 amended: for every dbType the dispatch passes through unchanged, the
\* fields missing or falsy in the raw parameters are absent as keys from the
\* config handed to the driver, and cleaning that config again yields the
\* same config.
C9_Normalized ==
  (drvOut.kind = "driver" /\ drvIn.sc.dbType \in PassThroughTypes) =>
    /\ UnsetAbsent(drvOut.config)
    /\ \A key \in RawKeys : RawSet(key) =>
         key \in DOMAIN drvOut.config
           /\ drvOut.config[key] = InParams.bag[key]
    /\ cleanFalsy(drvOut.config) = drvOut.config

\* a postgres driver built from { user: null, host: "h" }
C9_Witness ==
  /\ drvOut.kind = "driver"
  /\ drvIn.sc.dbType = "postgres"
  /\ InParams.bag = [user |-> Null, host |-> Str("h")]
  /\ drvOut.config = [host |-> Str("h")]

\* C10 as stated: an elasticsearch config gains queryFormat, url and auth
\* only, and account is composed for snowflake alone.
C10_OneDerivation ==
  drvOut.kind = "driver" =>
    /\ "account" \in DOMAIN drvOut.config => drvIn.sc.dbType = "snowflake"
    /\ drvIn.sc.dbType = "elasticsearch" =>
         DOMAIN drvOut.config =
           {key \in RawKeys : RawSet(key)} \cup {"queryFormat", "url", "auth"}
====
